---- MODULE Spec2Model ----
(***************************************************************************)
(* A model of email_system.py: EmailAddress (normalisation, validation,    *)
(* masking), Email (construction, text cleaning, short body, prepare) and  *)
(* EmailService.send_email (one copy per recipient).                       *)
(*                                                                         *)
(* Text is a sequence of one-character strings.  Objects with identity     *)
(* (EmailAddress instances, str instances handed in as recipients) live in *)
(* heap and are referred to by their index; Email objects live in emails.  *)
(***************************************************************************)
EXTENDS Integers, Sequences, FiniteSets, TLC

VARIABLES
    heap,      \* the EmailAddress / str objects alive, by identity (index)
    emails,    \* the Email objects alive, by identity (index)
    clock,     \* what datetime.datetime.now() returned last
    lastCall   \* the last call made: its name, argument, snapshot and result

vars == <<heap, emails, clock, lastCall>>

(***************************** bounds **************************************)
MaxTextLen == 3
MaxPad == 1
MaxAddrParts == 4
MaxEmails == 3
MaxRecipients == 2
MaxClock == 1

(************************* program constants *******************************)
ShortBodyLimit == 50
ShortBodyKeep == 47
MaskKeep == 2
None == 0

DRAFT == "draft"
READY == "ready"
SENT == "sent"
FAILED == "failed"
INVALID == "invalid"
Status == {DRAFT, READY, SENT, FAILED, INVALID}

VALID_DOMAINS == << <<".", "c", "o", "m">>, <<".", "r", "u">>, <<".", "n", "e", "t">> >>

(*************************** str helpers ***********************************)
\* str.isspace for one character: what str.strip() removes.
IsSpace(c) == c \in {" ", "\n", "\t", "\r"}

RECURSIVE LStrip(_)
LStrip(s) == IF s # <<>> /\ IsSpace(Head(s)) THEN LStrip(Tail(s)) ELSE s

RECURSIVE RStrip(_)
RStrip(s) ==
    IF s # <<>> /\ IsSpace(s[Len(s)]) THEN RStrip(SubSeq(s, 1, Len(s) - 1)) ELSE s

\* str.strip()
Strip(s) == RStrip(LStrip(s))

\* str.lower() for one character
LowerChar(c) ==
    CASE c = "A" -> "a"
      [] c = "C" -> "c"
      [] c = "O" -> "o"
      [] c = "M" -> "m"
      [] OTHER -> c

\* str.lower()
Lower(s) == [i \in 1..Len(s) |-> LowerChar(s[i])]

\* str.split(sep) for a one-character separator: always at least one part.
RECURSIVE SplitFrom(_, _, _)
SplitFrom(s, sep, cur) ==
    IF s = <<>> THEN <<cur>>
    ELSE IF Head(s) = sep THEN <<cur>> \o SplitFrom(Tail(s), sep, <<>>)
    ELSE SplitFrom(Tail(s), sep, Append(cur, Head(s)))

Split(s, sep) == SplitFrom(s, sep, <<>>)

\* sep.join(parts)
RECURSIVE Join(_, _)
Join(sep, parts) ==
    IF parts = <<>> THEN <<>>
    ELSE IF Len(parts) = 1 THEN parts[1]
    ELSE parts[1] \o sep \o Join(sep, Tail(parts))

\* str.endswith(suffix)
EndsWith(s, suffix) ==
    /\ Len(s) >= Len(suffix)
    /\ SubSeq(s, Len(s) - Len(suffix) + 1, Len(s)) = suffix

\* s[:n]
Prefix(s, n) == SubSeq(s, 1, IF Len(s) < n THEN Len(s) ELSE n)

RECURSIVE Concat(_)
Concat(ss) == IF ss = <<>> THEN <<>> ELSE Head(ss) \o Concat(Tail(ss))

RECURSIVE SelectNonEmpty(_)
SelectNonEmpty(ss) ==
    IF ss = <<>> THEN <<>>
    ELSE IF Head(ss) # <<>> THEN <<Head(ss)>> \o SelectNonEmpty(Tail(ss))
    ELSE SelectNonEmpty(Tail(ss))

(***************************** Email text **********************************)
\* A cleaning that drops the empty lines before it strips them.
CleanText_FilterBeforeStrip(text) ==
    LET kept == SelectNonEmpty(Split(text, "\n"))
    IN  Join(<<" ">>, [i \in 1..Len(kept) |-> Strip(kept[i])])

\* Email._clean_text
CleanText(text) ==
    LET raw == Split(text, "\n")
        lines == [i \in 1..Len(raw) |-> Strip(raw[i])]
    IN  Join(<<" ">>, SelectNonEmpty(lines))

\* A short body that cuts at the limit instead of above it.
AddShortBody_CutAtLimit(body) ==
    IF body = <<>> THEN <<>>
    ELSE LET cleaned_body == CleanText(body)
         IN  IF Len(cleaned_body) < ShortBodyLimit THEN cleaned_body
             ELSE Prefix(cleaned_body, ShortBodyKeep) \o <<".", ".", ".">>

\* Email._add_short_body: the value it gives self.short_body, from self.body
AddShortBody(body) ==
    IF body = <<>> THEN <<>>
    ELSE LET cleaned_body == CleanText(body)
         IN  IF Len(cleaned_body) <= ShortBodyLimit THEN cleaned_body
             ELSE Prefix(cleaned_body, ShortBodyKeep) \o <<".", ".", ".">>

(***************************** EmailAddress ********************************)
CountOf(s, c) == Cardinality({i \in 1..Len(s) : s[i] = c})

\* EmailAddress._normalize
Normalize(address) == Lower(Strip(address))

\* EmailAddress._validate: "" when it returns, else the exception it raises
Validate(address) ==
    IF CountOf(address, "@") = 0 THEN "ValueError"
    ELSE IF ~ \E d \in 1..Len(VALID_DOMAINS) : EndsWith(address, VALID_DOMAINS[d])
         THEN "ValueError"
         ELSE ""

\* EmailAddress.__init__: the object built, and the exception raised if any
EmailAddressInit(address) ==
    LET normalized == Normalize(address)
    IN  [obj |-> [kind |-> "EmailAddress", address |-> normalized],
         error |-> Validate(normalized)]

\* EmailAddress.masked: unpacking the split into two names raises ValueError
\* unless the split has exactly two parts.
Masked(address) ==
    LET parts == Split(address, "@")
    IN  IF Len(parts) # 2 THEN [value |-> <<>>, error |-> "ValueError"]
        ELSE [value |-> Prefix(parts[1], MaskKeep) \o <<"*", "*", "*">>
                        \o <<"@">> \o parts[2],
              error |-> ""]

\* isinstance(x, EmailAddress) for a reference x
IsEmailAddress(h, ref) == ref \in DOMAIN h /\ h[ref].kind = "EmailAddress"

NoCall == [op |-> "none", arg |-> <<>>, before |-> <<>>, result |-> <<>>, error |-> ""]

(***************************** raw inputs **********************************)
AddressTokens ==
    { <<"a">>, <<"A">>, <<"@">>, <<" ">>,
      <<".", "c", "o", "m">>, <<".", "r", "u">>, <<".", "n", "e", "t">>,
      <<".", "o", "r", "g">>, <<".", "C", "O", "M">> }

\* The raw strings handed to EmailAddress(): up to MaxAddrParts tokens.
RawAddresses ==
    { Concat(t) : t \in UNION { [1..n -> AddressTokens] : n \in 0..MaxAddrParts } }

(************************ EmailAddress operations **************************)
\* addr = EmailAddress(raw), for the raw string the caller holds
ConstructAddress ==
    /\ lastCall.op = "input"
    /\ LET r == EmailAddressInit(lastCall.arg)
       IN  /\ heap' = IF r.error = "" THEN Append(heap, r.obj) ELSE heap
           /\ lastCall' = [op |-> "EmailAddress", arg |-> lastCall.arg, before |-> <<>>,
                           result |-> IF r.error = "" THEN Len(heap) + 1 ELSE None,
                           error |-> r.error]
    /\ UNCHANGED <<emails, clock>>

\* addr.masked (also repr(addr))
MaskedCall ==
    \E ref \in DOMAIN heap :
        /\ IsEmailAddress(heap, ref)
        /\ LET m == Masked(heap[ref].address)
           IN  lastCall' = [op |-> "masked", arg |-> ref, before |-> <<>>,
                            result |-> m.value, error |-> m.error]
        /\ UNCHANGED <<heap, emails, clock>>

\* The caller holds a raw string and has built nothing yet.
InitAddress ==
    /\ heap = <<>>
    /\ emails = <<>>
    /\ clock = 0
    /\ \E raw \in RawAddresses :
          lastCall = [op |-> "input", arg |-> raw, before |-> <<>>,
                      result |-> <<>>, error |-> ""]

NextAddress == ConstructAddress \/ MaskedCall

SpecAddress == InitAddress /\ [][NextAddress]_vars

\* C8: construction fails when the normalised string has no '@' or no allowed
\* suffix, and every EmailAddress built holds a trimmed, lowercase value with
\* exactly one '@' whose part after the '@' ends with an allowed suffix.
C8_AddressInvariant ==
    lastCall.op = "EmailAddress" =>
        LET n == Lower(Strip(lastCall.arg))
            allowed(s) == \E d \in 1..Len(VALID_DOMAINS) : EndsWith(s, VALID_DOMAINS[d])
        IN  /\ (CountOf(n, "@") = 0 \/ ~ allowed(n)) => lastCall.error = "ValueError"
            /\ lastCall.error = "" =>
                LET v == heap[lastCall.result].address
                IN  /\ v = Strip(v)
                    /\ v = Lower(v)
                    /\ CountOf(v, "@") = 1
                    /\ allowed(Split(v, "@")[Len(Split(v, "@"))])

\* The same with "at least one '@'" in place of "exactly one".
AddressInvariantAtLeastOne ==
    lastCall.op = "EmailAddress" =>
        LET n == Lower(Strip(lastCall.arg))
            allowed(s) == \E d \in 1..Len(VALID_DOMAINS) : EndsWith(s, VALID_DOMAINS[d])
        IN  /\ (CountOf(n, "@") = 0 \/ ~ allowed(n)) <=> lastCall.error = "ValueError"
            /\ lastCall.error = "" =>
                LET v == heap[lastCall.result].address
                IN  /\ v = Strip(v)
                    /\ v = Lower(v)
                    /\ v = n
                    /\ CountOf(v, "@") >= 1
                    /\ allowed(Split(v, "@")[Len(Split(v, "@"))])

\* masked never raises on an EmailAddress that was built: violated by the
\* addresses with more than one '@', which the two-name unpacking rejects.
MaskedNeverRaises == lastCall.op = "masked" => lastCall.error = ""

(******************************** Email ************************************)
\* A __post_init__ that takes any sequence for a list.
PostInit_AnySequence(h, recipients) ==
    IF recipients.shape = "object" /\ IsEmailAddress(h, recipients.items[1])
    THEN [recipients |-> recipients.items, error |-> ""]
    ELSE IF recipients.shape \in {"list", "tuple"}
    THEN [recipients |-> recipients.items, error |-> ""]
    ELSE [recipients |-> <<>>, error |-> "TypeError"]

\* Email.__post_init__ on the recipients argument: a single object, a list,
\* a tuple or None, holding the references in items.
PostInit(h, recipients) ==
    IF recipients.shape = "object" /\ IsEmailAddress(h, recipients.items[1])
    THEN [recipients |-> recipients.items, error |-> ""]
    ELSE IF recipients.shape = "list"
    THEN [recipients |-> recipients.items, error |-> ""]
    ELSE [recipients |-> <<>>, error |-> "TypeError"]

\* The dataclass's generated __init__ with the field defaults, then __post_init__
EmailInit(h, subject, body, sender, recipients, now) ==
    LET post == PostInit(h, recipients)
    IN  [obj |-> [subject |-> subject, body |-> body, sender |-> sender,
                  recipients |-> post.recipients, date |-> now,
                  short_body |-> <<>>, status |-> DRAFT],
         error |-> post.error]

\* A condition that does not look at the recipients' types.
IsReady_NoTypeCheck(h, e) ==
    /\ e.subject # <<>>
    /\ e.body # <<>>
    /\ e.sender # None
    /\ e.recipients # <<>>

\* The condition of prepare's if: the truth of subject, body, sender and
\* recipients, and isinstance of every recipient.
IsReady(h, e) ==
    /\ e.subject # <<>>
    /\ e.body # <<>>
    /\ e.sender # None
    /\ e.recipients # <<>>
    /\ \A k \in 1..Len(e.recipients) : IsEmailAddress(h, e.recipients[k])

\* A prepare that decides the status before it cleans the text.
Prepare_StatusBeforeClean(h, e) ==
    [e EXCEPT !.subject = CleanText(e.subject),
              !.body = CleanText(e.body),
              !.short_body = AddShortBody(CleanText(e.body)),
              !.status = IF IsReady(h, e) THEN READY ELSE INVALID]

\* Email.prepare: the object after the call
Prepare(h, e) ==
    LET cleaned == [e EXCEPT !.subject = CleanText(e.subject),
                             !.body = CleanText(e.body)]
        short == [cleaned EXCEPT !.short_body = AddShortBody(cleaned.body)]
    IN  [short EXCEPT !.status = IF IsReady(h, short) THEN READY ELSE INVALID]

(***************************** EmailService ********************************)
\* copy.deepcopy of the objects an Email refers to, in the order of its
\* fields: an EmailAddress not yet in the memo is copied into a new object,
\* None and str are returned as they are.
RECURSIVE DeepCopyRefs(_, _, _)
DeepCopyRefs(h, refs, memo) ==
    IF refs = <<>> THEN [heap |-> h, memo |-> memo]
    ELSE LET r == Head(refs)
         IN  IF r \in DOMAIN memo \/ ~ IsEmailAddress(h, r)
             THEN DeepCopyRefs(h, Tail(refs), memo)
             ELSE DeepCopyRefs(Append(h, h[r]), Tail(refs),
                               memo @@ (r :> Len(h) + 1))

CopyOf(memo, r) == IF r \in DOMAIN memo THEN memo[r] ELSE r

\* copy.deepcopy(email): the heap with the copies, and the copied Email
DeepCopy(h, e) ==
    LET c == DeepCopyRefs(h, <<e.sender>> \o e.recipients, <<>>)
    IN  [heap |-> c.heap,
         obj |-> [e EXCEPT !.sender = CopyOf(c.memo, e.sender),
                           !.recipients = [k \in 1..Len(e.recipients) |->
                                              CopyOf(c.memo, e.recipients[k])]]]

\* A status that is SENT whatever the copy held.
SentStatus_AlwaysSent(status) == SENT

\* The if of the loop body: the status given to the copy, from the one it holds
SentStatus(status) == IF status = READY THEN SENT ELSE FAILED

\* email_copy bound to the argument itself instead of a copy.
EmailCopyRef_Alias(ems, src) == src

\* The object email_copy names: the copy just made, the newest Email
EmailCopyRef(ems, src) == Len(ems)

\* A recipient list that keeps the copied list.
CopyRecipients_KeepAll(copied, recipient) == copied

\* email_copy.recipients = [recipient]
CopyRecipients(copied, recipient) == <<recipient>>

\* The loop of send_email from the k-th recipient on.  st holds the heap, the
\* Emails, the clock and sent_emails; rs is the list being iterated; ticks[k]
\* is how far the clock moved before the k-th datetime.now().
RECURSIVE SendLoop(_, _, _, _, _)
SendLoop(st, src, rs, k, ticks) ==
    IF k > Len(rs) THEN st
    ELSE LET dc == DeepCopy(st.heap, st.emails[src])
             ems == Append(st.emails, dc.obj)
             tgt == EmailCopyRef(ems, src)
             now == st.clock + ticks[k]
             done == [ems EXCEPT ![tgt].recipients = CopyRecipients(@, rs[k]),
                                 ![tgt].date = now,
                                 ![tgt].status = SentStatus(@)]
         IN  SendLoop([heap |-> dc.heap, emails |-> done, clock |-> now,
                       sent |-> Append(st.sent, tgt)],
                      src, rs, k + 1, ticks)

\* EmailService.send_email(email)
SendEmail(h, ems, clk, src, ticks) ==
    SendLoop([heap |-> h, emails |-> ems, clock |-> clk, sent |-> <<>>],
             src, ems[src].recipients, 1, ticks)

(***************************** message inputs ******************************)
\* The objects the caller built before any Email: two addresses and a str.
CallerHeap ==
    << EmailAddressInit(<<" ", "A", "@", "a", ".", "C", "O", "M", " ">>).obj,
       EmailAddressInit(<<"a", "a", "@", "a", ".", "r", "u">>).obj,
       [kind |-> "str", address |-> <<"a", "@", "a", ".", "r", "u">>] >>

TextChars == {"a", " ", "\n"}

\* Every text of up to MaxTextLen characters
Texts == UNION { [1..n -> TextChars] : n \in 0..MaxTextLen }

Fill(n) == [i \in 1..n |-> "b"]

\* Bodies around the short-body limit: a text, then none or about
\* ShortBodyLimit more characters.
Bodies ==
    { p \o Fill(n) : p \in Texts,
                     n \in {0} \cup ((ShortBodyLimit - MaxPad)..(ShortBodyLimit + MaxPad)) }

\* The subjects and bodies of the messages whose life is followed
SampleTexts == { <<" ", "\n">>, <<" ", "a", "\n", "a", " ">> }

\* The sender handed in: none, or the first address the caller built
Senders(h) == {None} \cup {r \in DOMAIN h : r = 1 /\ IsEmailAddress(h, r)}

RefLists(h) == UNION { [1..n -> DOMAIN h] : n \in 0..MaxRecipients }

\* What a caller may hand in as recipients
RecipientArgs(h) ==
    { [shape |-> "object", items |-> <<r>>] : r \in DOMAIN h }
    \cup { [shape |-> sh, items |-> l] : sh \in {"list", "tuple"}, l \in RefLists(h) }
    \cup { [shape |-> "None", items |-> <<>>] }


(*************************** Email operations ******************************)
\* email = Email(subject, body, sender, recipients).  One caller-built Email
\* and the copies made of it are followed; its date is the clock's reading,
\* and the time that passes afterwards is told in send_email's readings.
NewEmail ==
    /\ emails = <<>>
    /\ \E subject \in SampleTexts, body \in SampleTexts, sender \in Senders(heap),
          recipients \in RecipientArgs(heap) :
          LET r == EmailInit(heap, subject, body, sender, recipients, clock)
          IN  /\ emails' = IF r.error = "" THEN <<r.obj>> ELSE emails
              /\ lastCall' = [op |-> "Email", arg |-> recipients, before |-> <<>>,
                              result |-> IF r.error = "" THEN 1 ELSE None,
                              error |-> r.error]
    /\ UNCHANGED <<heap, clock>>

\* emails[i].prepare()
PrepareCall ==
    \E i \in DOMAIN emails :
        /\ emails' = [emails EXCEPT ![i] = Prepare(heap, emails[i])]
        /\ lastCall' = [op |-> "prepare", arg |-> i, before |-> emails[i],
                        result |-> <<>>, error |-> ""]
        /\ UNCHANGED <<heap, clock>>

RECURSIVE Sum(_)
Sum(f) == IF f = <<>> THEN 0 ELSE Head(f) + Sum(Tail(f))

\* EmailService().send_email(emails[i])
SendCall ==
    \E i \in DOMAIN emails :
        /\ Len(emails) + Len(emails[i].recipients) <= MaxEmails
        /\ \E ticks \in [1..Len(emails[i].recipients) -> {0, 1}] :
              /\ clock + Sum(ticks) <= MaxClock
              /\ LET st == SendEmail(heap, emails, clock, i, ticks)
                 IN  /\ heap' = st.heap
                     /\ emails' = st.emails
                     /\ clock' = st.clock
                     /\ lastCall' = [op |-> "send_email", arg |-> i,
                                     before |-> emails[i], result |-> st.sent,
                                     error |-> ""]

Init ==
    /\ heap = CallerHeap
    /\ emails = <<>>
    /\ clock = 0
    /\ lastCall = NoCall

Next == NewEmail \/ PrepareCall \/ SendCall

Spec == Init /\ [][Next]_vars

\* One Email, just built from caller-chosen text.
InitText ==
    /\ heap = CallerHeap
    /\ clock = 0
    /\ \E subject \in Texts, body \in Bodies :
          /\ emails = << EmailInit(heap, subject, body, 1,
                                   [shape |-> "object", items |-> <<2>>], 0).obj >>
          /\ lastCall = [op |-> "Email", arg |-> [shape |-> "object", items |-> <<2>>],
                         before |-> <<>>, result |-> 1, error |-> ""]

NextText == PrepareCall

SpecText == InitText /\ [][NextText]_vars

(******************************* claims ************************************)
\* EmailAddress.__eq__ on two references
AddressEq(h, a, b) ==
    /\ IsEmailAddress(h, a)
    /\ IsEmailAddress(h, b)
    /\ h[a].address = h[b].address

\* The objects reachable from an Email that can be changed in place
MutableRefs(h, e) ==
    {r \in {e.sender} \cup {e.recipients[k] : k \in 1..Len(e.recipients)} :
        IsEmailAddress(h, r)}

Sent(k) == emails[lastCall.result[k]]

\* C1: after send_email, every returned copy is SENT when the original's
\* status is READY and FAILED when it is anything else.
C1_SendStatusPolicy ==
    lastCall.op = "send_email" =>
        \A k \in 1..Len(lastCall.result) :
            Sent(k).status = IF lastCall.before.status = READY THEN SENT ELSE FAILED

C1_Witness ==
    /\ lastCall.op = "send_email"
    /\ lastCall.before.status = READY
    /\ Len(lastCall.result) = 2
    /\ \A k \in 1..2 : Sent(k).status = SENT

\* C2: a send_email step leaves the status, the date and the recipients of
\* its argument as they were, and the objects the recipients refer to.
C2_SendLeavesInput ==
    [][lastCall'.op = "send_email" =>
        LET i == lastCall'.arg
        IN  /\ emails'[i].status = emails[i].status
            /\ emails'[i].date = emails[i].date
            /\ emails'[i].recipients = emails[i].recipients
            /\ \A k \in 1..Len(emails[i].recipients) :
                  heap'[emails[i].recipients[k]] = heap[emails[i].recipients[k]]]_vars

\* The same Email sent a second time, unchanged by the first send.
C2_Witness ==
    /\ lastCall.op = "send_email"
    /\ lastCall.arg = 1
    /\ Len(emails) > 1 + Len(lastCall.result)
    /\ Len(lastCall.result) >= 1
    /\ emails[1] = lastCall.before

\* C3: send_email returns one Email per recipient of its argument, the k-th
\* with a recipient list of length one whose element equals the k-th recipient.
C3_OnePerRecipient ==
    lastCall.op = "send_email" =>
        /\ Len(lastCall.result) = Len(lastCall.before.recipients)
        /\ \A k \in 1..Len(lastCall.result) :
              /\ Len(Sent(k).recipients) = 1
              /\ \/ Sent(k).recipients[1] = lastCall.before.recipients[k]
                 \/ AddressEq(heap, Sent(k).recipients[1], lastCall.before.recipients[k])

C3_Witness ==
    /\ lastCall.op = "send_email"
    /\ Len(lastCall.result) = 2
    /\ ~ AddressEq(heap, lastCall.before.recipients[1], lastCall.before.recipients[2])
    /\ Sent(1).recipients = <<lastCall.before.recipients[1]>>
    /\ Sent(2).recipients = <<lastCall.before.recipients[2]>>

\* C4 as stated: a status changes only from DRAFT to READY or INVALID, and a
\* copy made by send_email is SENT from a READY original or FAILED from a
\* READY or INVALID one.
C4_OnlyListedTransitions ==
    [][/\ \A i \in DOMAIN emails :
             emails'[i].status # emails[i].status =>
                 /\ emails[i].status = DRAFT
                 /\ emails'[i].status \in {READY, INVALID}
       /\ lastCall'.op = "send_email" =>
             \A j \in (DOMAIN emails') \ (DOMAIN emails) :
                 \/ emails'[j].status = SENT /\ emails[lastCall'.arg].status = READY
                 \/ /\ emails'[j].status = FAILED
                    /\ emails[lastCall'.arg].status \in {READY, INVALID}]_vars

\* C4 amended: the status of an existing Email changes only in its own
\* prepare, from DRAFT, SENT or FAILED to READY or INVALID (never between READY
\* and INVALID); send_email changes no existing status and makes each copy
\* SENT from a READY original and FAILED from any other.
C4_Transitions ==
    [][/\ \A i \in DOMAIN emails :
             emails'[i].status # emails[i].status =>
                 /\ lastCall'.op = "prepare"
                 /\ lastCall'.arg = i
                 /\ emails[i].status \in {DRAFT, SENT, FAILED}
                 /\ emails'[i].status \in {READY, INVALID}
       /\ lastCall'.op = "send_email" =>
             \A j \in (DOMAIN emails') \ (DOMAIN emails) :
                 emails'[j].status =
                     IF emails[lastCall'.arg].status = READY THEN SENT ELSE FAILED]_vars

\* A returned copy, SENT, was prepared and is READY.
C4_Witness ==
    /\ lastCall.op = "prepare"
    /\ lastCall.before.status = SENT
    /\ emails[lastCall.arg].status = READY

\* C5: after prepare the status is READY exactly when the cleaned subject and
\* body are non-empty, a sender is present, there is a recipient and every
\* recipient is an EmailAddress; otherwise it is INVALID.
C5_ReadyIff ==
    lastCall.op = "prepare" =>
        LET e == emails[lastCall.arg]
            b == lastCall.before
            all == /\ CleanText(b.subject) # <<>>
                   /\ CleanText(b.body) # <<>>
                   /\ b.sender # None
                   /\ Len(b.recipients) >= 1
                   /\ \A k \in 1..Len(b.recipients) :
                         heap[b.recipients[k]].kind = "EmailAddress"
        IN  /\ e.status = READY <=> all
            /\ e.status = INVALID <=> ~ all

\* prepare left INVALID an Email whose only flaw is a recipient that is a str.
C5_Witness ==
    /\ lastCall.op = "prepare"
    /\ emails[lastCall.arg].status = INVALID
    /\ emails[lastCall.arg].subject # <<>>
    /\ emails[lastCall.arg].body # <<>>
    /\ emails[lastCall.arg].sender # None
    /\ Len(emails[lastCall.arg].recipients) = 2
    /\ IsEmailAddress(heap, emails[lastCall.arg].recipients[1])
    /\ heap[emails[lastCall.arg].recipients[2]].kind = "str"

\* C6: after prepare, short_body is empty for an empty cleaned body, the
\* cleaned body when it has at most 50 characters, and otherwise its first 47
\* characters followed by "...", 50 characters in all; never more than 50.
C6_ShortBody ==
    lastCall.op = "prepare" =>
        LET c == emails[lastCall.arg].body
            sb == emails[lastCall.arg].short_body
        IN  /\ c = CleanText(lastCall.before.body)
            /\ c = <<>> => sb = <<>>
            /\ Len(c) <= 50 => sb = c
            /\ Len(c) > 50 =>
                  /\ sb = SubSeq(c, 1, 47) \o <<".", ".", ".">>
                  /\ Len(sb) = 50
            /\ Len(sb) <= 50

\* A body of exactly 50 cleaned characters, cut from a longer raw one.
C6_Witness ==
    /\ lastCall.op = "prepare"
    /\ Len(lastCall.before.body) > 50
    /\ Len(emails[lastCall.arg].body) = 50
    /\ emails[lastCall.arg].short_body = emails[lastCall.arg].body

\* C7: a prepare of an Email that was prepared before, with nothing done in
\* between, leaves subject, body, short_body and status as they were.
C7_PrepareIdempotent ==
    (lastCall.op = "prepare" /\ lastCall.before.status \in {READY, INVALID}) =>
        LET e == emails[lastCall.arg]
            b == lastCall.before
        IN  /\ e.subject = b.subject
            /\ e.body = b.body
            /\ e.short_body = b.short_body
            /\ e.status = b.status

\* The second prepare of a READY Email whose short body was cut.
C7_Witness ==
    /\ lastCall.op = "prepare"
    /\ lastCall.before.status = READY
    /\ lastCall.before.subject = <<"a", " ", "a">>
    /\ Len(lastCall.before.body) > 50
    /\ emails[lastCall.arg] = lastCall.before

\* C9 as stated: construction succeeds exactly for a single EmailAddress or a
\* list whose elements are all EmailAddress, and fails for everything else.
C9_OnlyAddressLists ==
    lastCall.op = "Email" =>
        LET a == lastCall.arg
        IN  lastCall.error = "" <=>
                \/ a.shape = "object" /\ IsEmailAddress(heap, a.items[1])
                \/ /\ a.shape = "list"
                   /\ \A k \in 1..Len(a.items) : IsEmailAddress(heap, a.items[k])

\* C9 amended: construction succeeds for a single EmailAddress, which becomes
\* a one-element list, and for any list, whose elements are kept as they are;
\* for every other argument it raises TypeError and no Email is created.
C9_ListsOfAnything ==
    lastCall.op = "Email" =>
        LET a == lastCall.arg
        IN  IF \/ a.shape = "object" /\ IsEmailAddress(heap, a.items[1])
               \/ a.shape = "list"
            THEN /\ lastCall.error = ""
                 /\ lastCall.result \in DOMAIN emails
                 /\ emails[lastCall.result].recipients = a.items
                 /\ a.shape = "object" => Len(emails[lastCall.result].recipients) = 1
            ELSE /\ lastCall.error = "TypeError"
                 /\ lastCall.result = None
                 /\ emails = <<>>

\* An Email built from a list that holds a str.
C9_Witness ==
    /\ lastCall.op = "Email"
    /\ lastCall.error = ""
    /\ lastCall.arg.shape = "list"
    /\ \E k \in 1..Len(lastCall.arg.items) :
          ~ IsEmailAddress(heap, lastCall.arg.items[k])
    /\ emails[1].recipients = lastCall.arg.items

\* C10: after send_email no object that can be changed in place is shared
\* between a returned copy and the argument, or between two returned copies.
C10_NoSharedObjects ==
    lastCall.op = "send_email" =>
        \A k \in 1..Len(lastCall.result) :
            /\ MutableRefs(heap, Sent(k)) \cap MutableRefs(heap, emails[lastCall.arg]) = {}
            /\ \A m \in 1..Len(lastCall.result) :
                  m # k => MutableRefs(heap, Sent(k)) \cap MutableRefs(heap, Sent(m)) = {}
====
